---------------------------- MODULE Spec2Model ----------------------------
(***************************************************************************)
(* A model of MetroStatusPlugin (src/manager.py): the arrival parser, the  *)
(* direction heuristic, the scrolling layout of display() and the plugin's *)
(* life as a state machine driven by update(), display(), next_page() and  *)
(* prev_page().                                                            *)
(*                                                                         *)
(* Python strings are sequences of one-character strings, so that strip(), *)
(* lower(), slicing, the substring test and int() are computed and not     *)
(* assumed.  A JSON value is a record [t, s, n]: its type tag, its text     *)
(* (for a string) and its number (an int, a bool as 0/1, a float in        *)
(* tenths).  An optional attribute (None, or not yet set) is the empty     *)
(* sequence and a set one is a one-element sequence.                       *)
(***************************************************************************)
EXTENDS Integers, Sequences, FiniteSets

VARIABLES
    enabled,             \* self.enabled
    wmata_api_key,       \* self.wmata_api_key, "" when not configured
    display_manager,     \* the display sink: [present, width, height, font]
    train_data,          \* self.train_data
    actual_train_count,  \* self.actual_train_count
    last_update,         \* self.last_update: <<>> (None) or <<t>>
    scroll_offset,       \* self.scroll_offset
    _scroll_step,        \* self._scroll_step: <<>> (no attribute yet) or <<n>>
    last_rendered_data,  \* self.last_rendered_data: <<>> (None) or <<fingerprint>>
    last_scroll_offset,  \* self.last_scroll_offset: <<>> (None) or <<n>>
    canvas,              \* the sink's frame buffer: the text drawn since its last clear
    call                 \* the call that led to this state: its name, its input, the
                         \* exception it caught, the one it let escape, what it
                         \* returned and the drawing calls it made on the sink

vars == <<enabled, wmata_api_key, display_manager, train_data, actual_train_count,
          last_update, scroll_offset, _scroll_step, last_rendered_data,
          last_scroll_offset, canvas, call>>

plugin == <<train_data, actual_train_count, last_update, scroll_offset, _scroll_step,
            last_rendered_data, last_scroll_offset>>

config == <<enabled, wmata_api_key, display_manager>>

---------------------------------------------------------------------------
(* Bounds of the model.                                                    *)

\* successful fetches a behaviour may hold (each reads a later clock value)
MaxClock == 2
\* display() ticks that may advance the scroll step
MaxScrollTicks == 9

---------------------------------------------------------------------------
(* Python strings.                                                         *)

Digits == <<"0", "1", "2", "3", "4", "5", "6", "7", "8", "9">>
UpperCase == <<"A","B","C","D","E","F","G","H","I","J","K","L","M",
               "N","O","P","Q","R","S","T","U","V","W","X","Y","Z">>
LowerCase == <<"a","b","c","d","e","f","g","h","i","j","k","l","m",
               "n","o","p","q","r","s","t","u","v","w","x","y","z">>
Whitespace == {" ", "\t", "\n"}

Range(seq) == {seq[i] : i \in DOMAIN seq}
IndexOf(seq, c) == CHOOSE i \in DOMAIN seq : seq[i] = c

\* str.lower()
LowerChar(c) == IF c \in Range(UpperCase) THEN LowerCase[IndexOf(UpperCase, c)] ELSE c
Lower(s) == [i \in DOMAIN s |-> LowerChar(s[i])]

\* str.strip()
RECURSIVE LStrip(_)
LStrip(s) == IF s # <<>> /\ Head(s) \in Whitespace THEN LStrip(Tail(s)) ELSE s
RECURSIVE RStrip(_)
RStrip(s) ==
    IF s # <<>> /\ s[Len(s)] \in Whitespace THEN RStrip(SubSeq(s, 1, Len(s) - 1)) ELSE s
Strip(s) == RStrip(LStrip(s))

\* s[:-k]
DropLast(s, k) == SubSeq(s, 1, Len(s) - k)

\* k in s
IsSubstring(k, s) ==
    \E i \in 0..(Len(s) - Len(k)) : SubSeq(s, i + 1, i + Len(k)) = k

\* str(n) of an int
RECURSIVE IntToStr(_)
IntToStr(n) ==
    IF n < 0 THEN <<"-">> \o IntToStr(-n)
    ELSE IF n < 10 THEN <<Digits[n + 1]>>
    ELSE IntToStr(n \div 10) \o <<Digits[(n % 10) + 1]>>

\* the digits of an int literal: underscores only between two digits
RECURSIVE DigitsValue(_, _, _)
DigitsValue(s, acc, afterDigit) ==
    IF s = <<>> THEN [ok |-> afterDigit, n |-> acc]
    ELSE IF Head(s) \in Range(Digits)
         THEN DigitsValue(Tail(s), acc * 10 + (IndexOf(Digits, Head(s)) - 1), TRUE)
    ELSE IF Head(s) = "_" /\ afterDigit THEN DigitsValue(Tail(s), acc, FALSE)
    ELSE [ok |-> FALSE, n |-> 0]

\* the value of a literal under its sign
Signed(negative, v) == IF v.ok /\ negative THEN [ok |-> TRUE, n |-> -v.n] ELSE v

\* an int literal with its whitespace stripped
LiteralValue(t) ==
    IF t # <<>> /\ Head(t) \in {"+", "-"}
    THEN Signed(Head(t) = "-", DigitsValue(Tail(t), 0, FALSE))
    ELSE DigitsValue(t, 0, FALSE)

\* int(s) of a str: [ok, n], not ok standing for ValueError
IntOfStr(s) == LiteralValue(Strip(s))

---------------------------------------------------------------------------
(* The texts of the source.                                                *)

NO_DATA == <<"N","O"," ","D","A","T","A">>
ERROR == <<"E","R","R","O","R">>
ARR == <<"A","R","R">>
BRD == <<"B","R","D">>
DASHES == <<"-","-">>
MIN_SUFFIX == <<" ","M","I","N">>
DOTS == <<".",".">>
EMPTY == <<>>

WHITE == <<255, 255, 255>>

---------------------------------------------------------------------------
(* JSON values, as response.json() hands them over.                        *)

JStr(s) == [t |-> "str", s |-> s, n |-> 0]
JInt(n) == [t |-> "int", s |-> <<>>, n |-> n]
JBool(b) == [t |-> "bool", s |-> <<>>, n |-> IF b THEN 1 ELSE 0]
\* a finite float, in tenths: JFloat(37) is 3.7
JFloat(tenths) == [t |-> "float", s |-> <<>>, n |-> tenths]
\* what 1e999 or Infinity decodes to
JInf == [t |-> "inf", s |-> <<>>, n |-> 0]
JNaN == [t |-> "nan", s |-> <<>>, n |-> 0]
JNull == [t |-> "null", s |-> <<>>, n |-> 0]
JList == [t |-> "list", s |-> <<>>, n |-> 0]
\* a key the object does not hold
JMissing == [t |-> "missing", s |-> <<>>, n |-> 0]

\* dict.get(key, default)
Get(v, default) == IF v.t = "missing" THEN default ELSE v

\* an arrival record of "Trains": a JSON object, or (isdict false) some other value
Train(dest, line, min, group) ==
    [isdict |-> TRUE, DestinationName |-> dest, Line |-> line, Min |-> min,
     Group |-> group]
NotADict == [isdict |-> FALSE, DestinationName |-> JMissing, Line |-> JMissing,
             Min |-> JMissing, Group |-> JMissing]

\* the decoded body: shape is "object" (a dict whose "Trains" is the list trains),
\* "no_trains" (a dict without the key), "null_trains" (the key holds null) or
\* "not_object" (the body is not a dict)
Payload(shape, trains) == [shape |-> shape, trains |-> trains]

---------------------------------------------------------------------------
(* LINE_CODES and _get_line_color.                                         *)

LINE_RD == <<"R","D">>
LINE_BL == <<"B","L">>
LINE_SV == <<"S","V">>
LINE_OR == <<"O","R">>
LINE_GR == <<"G","R">>
LINE_YL == <<"Y","L">>

LINE_CODES ==
    {<<LINE_RD, <<255, 0, 0>>>>, <<LINE_BL, <<0, 0, 255>>>>,
     <<LINE_SV, <<145, 145, 145>>>>, <<LINE_OR, <<255, 165, 0>>>>,
     <<LINE_GR, <<0, 128, 0>>>>, <<LINE_YL, <<255, 255, 0>>>>}

\* LINE_CODES.get(line_code, {}).get("color", (255, 255, 255)): [exc, color]; a
\* list is unhashable and the lookup raises TypeError
GetLineColor(line) ==
    IF line.t = "list" THEN [exc |-> "TypeError", color |-> WHITE]
    ELSE IF line.t = "str" /\ \E e \in LINE_CODES : e[1] = line.s
         THEN [exc |-> "none", color |-> (CHOOSE e \in LINE_CODES : e[1] = line.s)[2]]
    ELSE [exc |-> "none", color |-> WHITE]

---------------------------------------------------------------------------
(* _parse_arrivals.                                                        *)

Row(destination, line, minutes, color) ==
    [destination |-> destination, line |-> line, minutes |-> minutes, color |-> color]

NoDataRow == Row(NO_DATA, JStr(EMPTY), DASHES, WHITE)
ErrorRow == Row(ERROR, JStr(EMPTY), DASHES, WHITE)

\* float to int: towards zero
Truncate(tenths) == IF tenths >= 0 THEN tenths \div 10 ELSE -((-tenths) \div 10)

\* int() of a str, from its literal's value
Parsed(r) == [exc |-> IF r.ok THEN "none" ELSE "ValueError", n |-> r.n]

\* int(minutes): [exc, n]
IntOf(v) ==
    CASE v.t = "str" -> Parsed(IntOfStr(v.s))
      [] v.t \in {"int", "bool"} -> [exc |-> "none", n |-> v.n]
      [] v.t = "float" -> [exc |-> "none", n |-> Truncate(v.n)]
      [] v.t = "nan" -> [exc |-> "ValueError", n |-> 0]
      [] v.t = "inf" -> [exc |-> "OverflowError", n |-> 0]
      [] OTHER -> [exc |-> "TypeError", n |-> 0]

\* the try block around int(minutes): ValueError and TypeError are caught
FormatMinutes(r) ==
    IF r.exc = "none" THEN [exc |-> "none", text |-> IntToStr(r.n) \o MIN_SUFFIX]
    ELSE IF r.exc \in {"ValueError", "TypeError"} THEN [exc |-> "none", text |-> DASHES]
    ELSE [exc |-> r.exc, text |-> DASHES]

\* the minutes of a row: [exc, text]
MinutesDisplay(minutes) ==
    IF minutes = JStr(ARR) THEN [exc |-> "none", text |-> ARR]
    ELSE IF minutes = JStr(BRD) THEN [exc |-> "none", text |-> BRD]
    ELSE FormatMinutes(IntOf(minutes))

\* train_info, from the fields of the record
TrainRow(destination_name, line, shown, colour) ==
    IF destination_name.t # "str" THEN [exc |-> "AttributeError", row |-> ErrorRow]
    ELSE IF shown.exc # "none" THEN [exc |-> shown.exc, row |-> ErrorRow]
    ELSE IF colour.exc # "none" THEN [exc |-> colour.exc, row |-> ErrorRow]
    ELSE [exc |-> "none",
          row |-> Row(Strip(destination_name.s), line, shown.text, colour.color)]

\* the body of the loop, for one element of "Trains": [exc, row]
TrainInfo(train) ==
    IF ~train.isdict THEN [exc |-> "AttributeError", row |-> ErrorRow]
    ELSE TrainRow(Get(train.DestinationName, JStr(EMPTY)),
                  Get(train.Line, JStr(EMPTY)),
                  MinutesDisplay(Get(train.Min, JStr(EMPTY))),
                  GetLineColor(Get(train.Line, JStr(EMPTY))))

\* the loop over "Trains": [exc, rows], rows being self.train_data when it ends
RECURSIVE ProcessTrains(_, _)
RECURSIVE Processed(_, _, _)
Processed(info, trains, rows) ==
    IF info.exc # "none" THEN [exc |-> info.exc, rows |-> rows]
    ELSE ProcessTrains(Tail(trains), Append(rows, info.row))
ProcessTrains(trains, rows) ==
    IF trains = <<>> THEN [exc |-> "none", rows |-> rows]
    ELSE Processed(TrainInfo(Head(trains)), trains, rows)

\* the while loop that fills up to 3 rows
RECURSIVE PadNoData(_)
PadNoData(rows) == IF Len(rows) < 3 THEN PadNoData(Append(rows, NoDataRow)) ELSE rows

\* ParseDone with the real rows counted after the padding
ParseDone_CountsPadding(rows) ==
    [train_data |-> PadNoData(rows), actual_train_count |-> Len(PadNoData(rows)),
     exc |-> "none"]

\* the end of the try block, reached with no exception
ParseDone(rows) ==
    [train_data |-> PadNoData(rows), actual_train_count |-> Len(rows), exc |-> "none"]

\* ParseFailed leaving a single "ERROR" row
ParseFailed_OneErrorRow(exc, rows) ==
    [train_data |-> <<ErrorRow>>, actual_train_count |-> 0, exc |-> exc]

\* ParseFailed with the rows converted so far kept in front of the "ERROR" rows
ParseFailed_KeepsPartial(exc, rows) ==
    [train_data |-> rows \o <<ErrorRow, ErrorRow, ErrorRow>>,
     actual_train_count |-> Len(rows), exc |-> exc]

\* the except block
ParseFailed(exc, rows) ==
    [train_data |-> <<ErrorRow, ErrorRow, ErrorRow>>, actual_train_count |-> 0,
     exc |-> exc]

\* _parse_arrivals(data): what it leaves in train_data and actual_train_count, and
\* the exception its handler caught ("none" when the try block ended); done is the
\* loop's end
ParseEnded(done) ==
    IF done.exc = "none" THEN ParseDone(done.rows) ELSE ParseFailed(done.exc, done.rows)
ParseArrivals(data) ==
    IF data.shape = "not_object" THEN ParseFailed("AttributeError", <<>>)
    ELSE IF data.shape = "null_trains" THEN ParseFailed("TypeError", <<>>)
    ELSE ParseEnded(ProcessTrains(IF data.shape = "no_trains" THEN <<>> ELSE data.trains,
                                  <<>>))

---------------------------------------------------------------------------
(* _get_direction.                                                         *)

east_destinations ==
    <<<<"l","a","r","g","o">>,
      <<"b","r","a","n","c","h">>,
      <<"s","u","i","t","l","a","n","d">>,
      <<"n","a","y","l","o","r">>,
      <<"c","o","n","g","r","e","s","s">>,
      <<"s","o","u","t","h","e","r","n">>,
      <<"n","a","v","y"," ","y","a","r","d">>,
      <<"a","n","a","c","o","s","t","i","a">>,
      <<"w","a","t","e","r","f","r","o","n","t">>,
      <<"i","k","e","a">>>>

west_destinations ==
    <<<<"v","i","e","n","n","a">>,
      <<"a","s","h","b","u","r","n">>,
      <<"d","u","n","n"," ","l","o","r","i","n","g">>,
      <<"f","a","l","l","s"," ","c","h","u","r","c","h">>,
      <<"w","e","s","t"," ","f","a","l","l","s">>,
      <<"f","r","i","e","n","d","s","h","i","p"," ","h","e","i","g","h","t","s">>,
      <<"b","e","t","h","e","s","d","a">>,
      <<"m","e","d","i","c","a","l"," ","c","e","n","t","e","r">>,
      <<"s","h","a","d","y"," ","g","r","o","v","e">>,
      <<"g","l","e","n","m","o","n","t">>,
      <<"u","p","t","o","w","n">>,
      <<"t","e","n","l","e","y","t","o","w","n">>,
      <<"v","a","n"," ","n","e","s","s">>>>

\* a for loop over a keyword list: whether one of them is in the destination
RECURSIVE AnyKeywordIn(_, _)
AnyKeywordIn(keywords, destination_lower) ==
    IF keywords = <<>> THEN FALSE
    ELSE IF IsSubstring(Head(keywords), destination_lower) THEN TRUE
    ELSE AnyKeywordIn(Tail(keywords), destination_lower)

\* Direction with the west list tried first
Direction_WestFirst(destination_lower) ==
    IF AnyKeywordIn(west_destinations, destination_lower) THEN "west"
    ELSE IF AnyKeywordIn(east_destinations, destination_lower) THEN "east"
    ELSE "east"

\* the two loops and the default
Direction(destination_lower) ==
    IF AnyKeywordIn(east_destinations, destination_lower) THEN "east"
    ELSE IF AnyKeywordIn(west_destinations, destination_lower) THEN "west"
    ELSE "east"

\* _get_direction(destination)
GetDirection(destination) == Direction(Lower(destination))

---------------------------------------------------------------------------
(* _fetch_arrivals, update and the constructor.                            *)

\* what requests.get, raise_for_status and response.json() may do: kind is "ok"
\* (data is the decoded body) or the failure
Fetched(data) == [kind |-> "ok", data |-> data]
FetchFailure(kind) == [kind |-> kind, data |-> Payload("no_trains", <<>>)]
FailureKinds == {"network_error", "timeout", "http_error", "bad_json"}

\* the time of a last_update, 0 for None
Clock(lu) == IF lu = <<>> THEN 0 ELSE lu[1]
\* datetime.now(): a later time at every read
Now(lu) == Clock(lu) + 1

\* FetchFalse blanking the queue
FetchFalse_BlanksQueue(td, cnt, lu) ==
    [train_data |-> <<>>, actual_train_count |-> 0, last_update |-> lu,
     ret |-> FALSE, exc |-> "none"]

\* a return False of _fetch_arrivals
FetchFalse(td, cnt, lu) ==
    [train_data |-> td, actual_train_count |-> cnt, last_update |-> lu,
     ret |-> FALSE, exc |-> "none"]

\* _fetch_arrivals() with the queue (td, cnt) and last_update lu, outcome being what
\* the HTTP client does: the fields it leaves, its return value and the exception
\* _parse_arrivals caught
FetchTrue(parsed, lu) ==
    [train_data |-> parsed.train_data, actual_train_count |-> parsed.actual_train_count,
     last_update |-> <<Now(lu)>>, ret |-> TRUE, exc |-> parsed.exc]
FetchArrivals(key, outcome, td, cnt, lu) ==
    IF key = "" THEN FetchFalse(td, cnt, lu)
    ELSE IF outcome.kind # "ok" THEN FetchFalse(td, cnt, lu)
    ELSE FetchTrue(ParseArrivals(outcome.data), lu)

\* the body of update()
UpdateResult(outcome) ==
    IF ~enabled THEN FetchFalse(train_data, actual_train_count, last_update)
    ELSE FetchArrivals(wmata_api_key, outcome, train_data, actual_train_count,
                       last_update)

Called(op, arg, exc, raised, ret, emitted) ==
    [op |-> op, arg |-> arg, exc |-> exc, raised |-> raised, ret |-> ret,
     emitted |-> emitted]

\* __init__: the state it leaves, outcome being what its initial fetch met
Constructed(en, key, dm, outcome) ==
    \E fetched \in {FetchArrivals(key, outcome, <<>>, 0, <<>>)} :
        /\ enabled = en
        /\ wmata_api_key = key
        /\ display_manager = dm
        /\ train_data = fetched.train_data
        /\ actual_train_count = fetched.actual_train_count
        /\ last_update = fetched.last_update
        /\ scroll_offset = 0
        /\ _scroll_step = <<>>
        /\ last_rendered_data = <<>>
        /\ last_scroll_offset = <<>>
        /\ canvas = <<>>
        /\ call = Called("__init__", outcome, fetched.exc, FALSE, fetched.ret, <<>>)

---------------------------------------------------------------------------
(* The display sink.                                                       *)

\* a call on the sink: clear, get_text_width, draw_text or update_display
SinkOp(op, text, x, y, color) == [op |-> op, text |-> text, x |-> x, y |-> y, color |-> color]
Clear == SinkOp("clear", <<>>, 0, 0, WHITE)
Measure(text) == SinkOp("get_text_width", text, 0, 0, WHITE)
DrawText(text, x, y, color) == SinkOp("draw_text", text, x, y, color)
UpdateDisplay == SinkOp("update_display", <<>>, 0, 0, WHITE)

\* the sink's fault during one display(): the operation that raises ("none": no
\* fault), and whether it raises again when the except block calls it
Fault(op, persistent) == [op |-> op, persistent |-> persistent]
NoFault == Fault("none", FALSE)

\* display_manager.get_text_width with the sink's small font: "mono" is a fixed
\* 4 pixel font, "prop" a proportional one
CharWidth(c, font) ==
    IF font = "mono" THEN 4
    ELSE IF c \in {"i", "l", ".", " ", "1", "-"} THEN 2
    ELSE IF c \in {"M", "W", "m", "w"} THEN 6
    ELSE 4
RECURSIVE TextWidth(_, _)
TextWidth(text, font) ==
    IF text = <<>> THEN 0 ELSE CharWidth(Head(text), font) + TextWidth(Tail(text), font)

\* the sink running ops in order, faultOp being the operation that raises: the
\* frame buffer it is left with, the drawing calls made on it and whether one raised
Buffered(o, buffer) ==
    CASE o.op = "clear" -> <<>>
      [] o.op = "draw_text" -> Append(buffer, o)
      [] OTHER -> buffer
Made(o, emitted) == IF o.op = "get_text_width" THEN emitted ELSE Append(emitted, o.op)
RECURSIVE RunSink(_, _, _, _)
RunSink(ops, faultOp, buffer, emitted) ==
    IF ops = <<>> THEN [canvas |-> buffer, emitted |-> emitted, raised |-> FALSE]
    ELSE IF Head(ops).op = faultOp
    THEN [canvas |-> buffer, emitted |-> Made(Head(ops), emitted), raised |-> TRUE]
    ELSE RunSink(Tail(ops), faultOp, Buffered(Head(ops), buffer),
                 Made(Head(ops), emitted))

---------------------------------------------------------------------------
(* display().                                                              *)

header_height == 7
line_height == 8
scroll_increment == 7
right_margin == 2
spacing == 2

ORANGE == <<255, 128, 0>>
RED == <<255, 0, 0>>

\* config.get("reference_station", "Metro Center").lower()
reference_station == <<"m","e","t","r","o"," ","c","e","n","t","e","r">>

Max(a, b) == IF a >= b THEN a ELSE b
Min(a, b) == IF a <= b THEN a ELSE b

IsLetter(c) == c \in Range(UpperCase) \/ c \in Range(LowerCase)
UpperChar(c) == IF c \in Range(LowerCase) THEN UpperCase[IndexOf(LowerCase, c)] ELSE c
\* str.title()
Title(s) ==
    [i \in DOMAIN s |->
        IF i = 1 \/ ~IsLetter(s[i - 1]) THEN UpperChar(s[i]) ELSE LowerChar(s[i])]

MaxVisibleTrains(height) ==
    Max(3, (height - header_height - 2) \div line_height)

\* the tuple whose hash is current_data_hash; the hash is taken to be injective
DataHash(rows, height) ==
    [i \in 1..Min(MaxVisibleTrains(height), Len(rows)) |->
        <<rows[i].destination, rows[i].minutes>>]

StepValue(step) == IF step = <<>> THEN 0 ELSE step[1]

\* max_scroll: the scroll range of count real rows
MaxScroll(count, height) ==
    Max(0, (count * line_height) - (height - header_height - 2))

\* Scrolled with the offset held at the end of the range
Scrolled_StopsAtEnd(stepped, cycle_period) ==
    [scroll_offset |-> IF cycle_period > 0
                       THEN Min(stepped, cycle_period - line_height) ELSE 0,
     _scroll_step |-> <<stepped>>]

\* Scrolled with the offset not wrapped at the cycle's end
Scrolled_NoWrap(stepped, cycle_period) ==
    [scroll_offset |-> IF cycle_period > 0 THEN stepped ELSE 0,
     _scroll_step |-> <<stepped>>]

\* the scroll state once _scroll_step is stepped
Scrolled(stepped, cycle_period) ==
    [scroll_offset |-> IF cycle_period > 0 THEN stepped % cycle_period ELSE 0,
     _scroll_step |-> <<stepped>>]

\* the scroll update of one tick: [scroll_offset, _scroll_step]
ScrollTick(count, height, step) ==
    IF count > MaxVisibleTrains(height)
    THEN Scrolled(StepValue(step) + scroll_increment,
                  MaxScroll(count, height) + line_height)
    ELSE [scroll_offset |-> 0, _scroll_step |-> step]

\* the while loop that shortens a text one character at a time
RECURSIVE Shorten(_, _, _)
Shorten(text, available, font) ==
    IF TextWidth(text, font) > available /\ Len(text) > 1
    THEN Shorten(DropLast(text, 1), available, font)
    ELSE text

\* the ".." put on a shortened text
Ellipsize(truncated, full) ==
    IF Len(truncated) < Len(full)
    THEN IF Len(truncated) > 2 THEN DropLast(truncated, 2) \o DOTS ELSE DOTS
    ELSE truncated

\* the text drawn for a text that has available pixels
TruncatedText(text, available, font) == Ellipsize(Shorten(text, available, font), text)

\* where the minutes of a row start
MinutesX(minutes, width, font) == width - TextWidth(minutes, font) - right_margin

\* the sink calls of a row at y_pos, none when it lies off the canvas
RowDrawn(train, y_pos, minutes_x, height, font) ==
    IF y_pos + line_height < 0 \/ y_pos > height THEN <<>>
    ELSE <<Measure(train.minutes), Measure(train.destination),
           DrawText(TruncatedText(train.destination, minutes_x - spacing, font),
                    0, y_pos, train.color),
           DrawText(train.minutes, minutes_x, y_pos, train.color)>>

\* the sink calls of row i (from 0) of the loop over train_data
RowOps(train, i, width, height, offset, font) ==
    RowDrawn(train, (header_height + 1) + (i * line_height) - offset,
             MinutesX(train.minutes, width, font), height, font)

RECURSIVE RowsOps(_, _, _, _, _, _)
RowsOps(rows, i, width, height, offset, font) ==
    IF i >= Len(rows) THEN <<>>
    ELSE RowOps(rows[i + 1], i, width, height, offset, font)
         \o RowsOps(rows, i + 1, width, height, offset, font)

\* self.reference_station.title()
station_name == Title(reference_station)

\* the "NO DATA" message is shown in place of the rows
ShowsNoData(rows) == rows = <<>> \/ \A i \in DOMAIN rows : rows[i].destination = NO_DATA

\* the sink calls of one frame, from clear() on
Frame(rows, width, height, offset, font) ==
    <<Clear, Measure(station_name),
      DrawText(TruncatedText(station_name, width - 10, font), 0, 0 - offset, WHITE)>>
    \o (IF ShowsNoData(rows)
        THEN <<DrawText(NO_DATA, 5, header_height - offset, ORANGE)>>
        ELSE RowsOps(rows, 0, width, height, offset, font))
    \o <<UpdateDisplay>>

\* the except block: clear, "ERROR", update_display, its own exceptions passed over
ErrorFrame == <<Clear, DrawText(ERROR, 5, 15, RED), UpdateDisplay>>

\* the "trains" of the dictionary display() returns after a frame
DisplayedTrains(rows, count) ==
    IF ShowsNoData(rows) THEN <<>>
    ELSE [i \in 1..count |->
            [destination |-> rows[i].destination, minutes |-> rows[i].minutes,
             line |-> rows[i].line]]

\* the end of a display(): the fields it leaves, the exception its try block
\* raised ("none" when it ended), whether one escapes, the "trains" returned and
\* the drawing calls made
Displayed(offset, step, rendered, rendered_offset, buffer, exc, ret, emitted) ==
    [scroll_offset |-> offset, _scroll_step |-> step, last_rendered_data |-> rendered,
     last_scroll_offset |-> rendered_offset, canvas |-> buffer, exc |-> exc,
     raised |-> FALSE, ret |-> ret, emitted |-> emitted]

\* the early return of a disabled plugin or of one with no display manager
DisplaySkipped ==
    Displayed(scroll_offset, _scroll_step, last_rendered_data, last_scroll_offset,
              canvas, "none", <<>>, <<>>)

\* the return of a call that found nothing changed
DisplaySuppressed(tick) ==
    Displayed(tick.scroll_offset, tick._scroll_step, last_rendered_data,
              last_scroll_offset, canvas, "none", <<>>, <<>>)

\* ErrorShown without the inner "except: pass": the exception of the error frame
\* escapes
ErrorShown_Propagates(offset, step, shown) ==
    [Displayed(offset, step, last_rendered_data, last_scroll_offset, shown.canvas,
               "Exception", <<>>, shown.emitted) EXCEPT !.raised = shown.raised]

\* the except block, entered with the scroll state and the sink as the try block
\* left them; shown is what the sink made of the error frame, whose own exception
\* the inner "except: pass" drops
ErrorShown(offset, step, shown) ==
    Displayed(offset, step, last_rendered_data, last_scroll_offset, shown.canvas,
              "Exception", <<>>, shown.emitted)
DisplayFailed(offset, step, buffer, emitted, fault) ==
    ErrorShown(offset, step,
               RunSink(ErrorFrame, IF fault.persistent THEN fault.op ELSE "none",
                       buffer, emitted))

\* MustDraw with force_clear left out of the test
MustDraw_IgnoresForce(hash, offset, force_clear) ==
    last_rendered_data # <<hash>> \/ last_scroll_offset # <<offset>>

\* whether a tick with this fingerprint and scroll offset draws
MustDraw(hash, offset, force_clear) ==
    LET data_changed == last_rendered_data # <<hash>>
        scroll_changed == last_scroll_offset # <<offset>>
    IN  ~(~data_changed /\ ~scroll_changed /\ ~force_clear)

\* the end of a call that drew: drawn is what the sink made of the frame
DisplayDrawn(fault, current_data_hash, tick, drawn) ==
    IF drawn.raised
    THEN DisplayFailed(tick.scroll_offset, tick._scroll_step, drawn.canvas,
                       drawn.emitted, fault)
    ELSE Displayed(tick.scroll_offset, tick._scroll_step, <<current_data_hash>>,
                   <<tick.scroll_offset>>, drawn.canvas, "none",
                   DisplayedTrains(train_data, actual_train_count), drawn.emitted)

\* display() from the redraw test on
DisplayTick(force_clear, fault, current_data_hash, tick, frame) ==
    IF ~MustDraw(current_data_hash, tick.scroll_offset, force_clear)
    THEN DisplaySuppressed(tick)
    ELSE DisplayDrawn(fault, current_data_hash, tick,
                      RunSink(frame, fault.op, canvas, <<>>))

\* display(force_clear), fault being what the sink does during the call, tick the
\* scroll state the call computes and frame the sink calls of its frame
DisplayResult(force_clear, fault, tick, frame) ==
    IF ~enabled \/ ~display_manager.present THEN DisplaySkipped
    ELSE IF fault.op = "width"
    THEN DisplayFailed(scroll_offset, _scroll_step, canvas, <<>>, fault)
    ELSE DisplayTick(force_clear, fault, DataHash(train_data, display_manager.height),
                     tick, frame)

---------------------------------------------------------------------------
(* The inputs of the model.                                                *)

D_LARGO == <<"L","a","r","g","o">>
D_VIENNA_PADDED == <<" ","V","i","e","n","n","a"," ">>
D_SHADY == <<"S","h","a","d","y"," ","G","r","o","v","e">>
D_GLENMONT == <<"G","l","e","n","m","o","n","t">>
D_BRANCH == <<"B","r","a","n","c","h"," ","A","v","e">>

T_LARGO == Train(JStr(D_LARGO), JStr(LINE_BL), JStr(ARR), JStr(<<"1">>))
T_VIENNA == Train(JStr(D_VIENNA_PADDED), JStr(LINE_OR), JStr(<<"5">>), JStr(<<"2">>))
T_VIENNA_SILVER == Train(JStr(D_VIENNA_PADDED), JStr(LINE_SV), JStr(<<"5">>), JStr(<<"2">>))
T_SHADY == Train(JStr(D_SHADY), JStr(LINE_RD), JInt(12), JStr(<<"2">>))
T_GLENMONT == Train(JStr(D_GLENMONT), JStr(LINE_RD), JStr(BRD), JMissing)
T_BRANCH_INF == Train(JStr(D_BRANCH), JStr(LINE_GR), JInf, JStr(<<"1">>))

P_EMPTY == Payload("object", <<>>)
P_TWO == Payload("object", <<T_LARGO, T_VIENNA>>)
P_TWO_SILVER == Payload("object", <<T_LARGO, T_VIENNA_SILVER>>)
P_FOUR == Payload("object", <<T_LARGO, T_VIENNA, T_SHADY, T_GLENMONT>>)
P_NOT_OBJECT == Payload("not_object", <<>>)
P_PARTIAL == Payload("object", <<T_LARGO, T_BRANCH_INF>>)

\* the bodies update() may be handed
Payloads ==
    {P_EMPTY, P_TWO, P_TWO_SILVER, P_FOUR, P_NOT_OBJECT, P_PARTIAL}

FetchOutcomes == {Fetched(p) : p \in Payloads} \cup {FetchFailure(k) : k \in FailureKinds}

NoDisplayManager == [present |-> FALSE, width |-> 0, height |-> 0, font |-> "mono"]
DisplayManager(width, height, font) ==
    [present |-> TRUE, width |-> width, height |-> height, font |-> font]
DisplayManagers ==
    {NoDisplayManager, DisplayManager(64, 32, "mono"), DisplayManager(32, 16, "prop")}

SinkFaults ==
    {NoFault, Fault("width", FALSE), Fault("clear", TRUE), Fault("draw_text", FALSE),
     Fault("draw_text", TRUE), Fault("update_display", FALSE)}

---------------------------------------------------------------------------
(* The plugin as a state machine.                                          *)

Init ==
    \E en \in BOOLEAN, key \in {"", "key"}, dm \in DisplayManagers,
       outcome \in FetchOutcomes :
        Constructed(en, key, dm, outcome)

\* update(), outcome being what the HTTP client does
Update ==
    \E outcome \in FetchOutcomes :
        \E r \in {UpdateResult(outcome)} :
            /\ Clock(r.last_update) <= MaxClock
            /\ train_data' = r.train_data
            /\ actual_train_count' = r.actual_train_count
            /\ last_update' = r.last_update
            /\ call' = Called("update", outcome, r.exc, FALSE, r.ret, <<>>)
            /\ UNCHANGED <<config, scroll_offset, _scroll_step, last_rendered_data,
                           last_scroll_offset, canvas>>

\* display(force_clear), fault being what the sink does
Display ==
    \E tick \in {ScrollTick(actual_train_count, display_manager.height, _scroll_step)} :
    \E frame \in {Frame(train_data, display_manager.width, display_manager.height,
                        tick.scroll_offset, display_manager.font)} :
    \E force_clear \in BOOLEAN, fault \in SinkFaults :
        \E r \in {DisplayResult(force_clear, fault, tick, frame)} :
            /\ StepValue(r._scroll_step) <= MaxScrollTicks * scroll_increment
            /\ scroll_offset' = r.scroll_offset
            /\ _scroll_step' = r._scroll_step
            /\ last_rendered_data' = r.last_rendered_data
            /\ last_scroll_offset' = r.last_scroll_offset
            /\ canvas' = r.canvas
            /\ call' = Called("display", [force_clear |-> force_clear, fault |-> fault],
                              r.exc, r.raised, r.ret, r.emitted)
            /\ UNCHANGED <<config, train_data, actual_train_count, last_update>>

\* next_page() dropping the rendered fingerprint to force the next frame
NextPage_ForcesRedraw ==
    /\ last_rendered_data' = <<>>
    /\ call' = Called("next_page", <<>>, "none", FALSE, <<>>, <<>>)
    /\ UNCHANGED <<config, train_data, actual_train_count, last_update, scroll_offset,
                   _scroll_step, last_scroll_offset, canvas>>

\* next_page(): pass
NextPage ==
    /\ call' = Called("next_page", <<>>, "none", FALSE, <<>>, <<>>)
    /\ UNCHANGED <<config, plugin, canvas>>

\* prev_page(): pass
PrevPage ==
    /\ call' = Called("prev_page", <<>>, "none", FALSE, <<>>, <<>>)
    /\ UNCHANGED <<config, plugin, canvas>>

Next == Update \/ Display \/ NextPage \/ PrevPage

Spec == Init /\ [][Next]_vars

---------------------------------------------------------------------------
(* _parse_arrivals on its own: one call on a constructed plugin.           *)

\* the longest "Trains" list drawn from TrainPool
MaxTrains == 4

D_SPACES == <<" "," ">>
LINE_UNKNOWN == <<"X","X">>

\* a record with no destination, an unknown line and unreadable minutes
T_BLANK == Train(JMissing, JStr(LINE_UNKNOWN), JStr(<<"a","b","c">>), JMissing)

TrainPool == {T_LARGO, T_VIENNA, T_BLANK, T_BRANCH_INF, NotADict}

\* the values "Min" is given
MinValues ==
    {JStr(ARR), JStr(BRD), JStr(<<"a","r","r">>), JStr(<<"5">>), JStr(<<"1","2">>),
     JStr(<<"0","7">>), JStr(<<" ","7"," ">>), JStr(<<"-","3">>), JStr(<<"+","4">>),
     JStr(<<"1","_","0">>), JStr(<<"_","1">>), JStr(<<"1","_">>), JStr(<<"+">>),
     JStr(<<"3",".","5">>), JStr(<<"a","b","c">>), JStr(EMPTY), JStr(D_SPACES),
     JInt(4), JInt(0), JInt(-2), JBool(TRUE), JFloat(37), JFloat(-37), JNaN, JInf,
     JNull, JList, JMissing}

DestinationValues ==
    {JStr(D_GLENMONT), JStr(D_VIENNA_PADDED), JStr(D_SPACES), JStr(NO_DATA), JMissing,
     JNull, JInt(3), JList}

LineValues == {JStr(LINE_RD), JStr(LINE_YL), JStr(LINE_UNKNOWN), JStr(EMPTY), JMissing,
               JNull, JInt(1), JList}

\* the lists of at most n records of the pool
ListsUpTo(pool, n) == UNION {[1..k -> pool] : k \in 0..n}

ParsePayloads ==
    {Payload("object", trains) : trains \in ListsUpTo(TrainPool, MaxTrains)}
    \cup {Payload("object", <<Train(d, l, m, JMissing)>>) :
            d \in DestinationValues, l \in LineValues, m \in {JStr(<<"5">>), JInf}}
    \cup {Payload("object", <<T_LARGO, Train(JStr(D_GLENMONT), JStr(LINE_RD), m, JMissing)>>) :
            m \in MinValues}
    \cup {Payload("no_trains", <<>>), Payload("null_trains", <<>>),
          Payload("not_object", <<>>)}

\* the plugin before the call: its first fetch failed, or filled the queue, or met
\* a body that is no object
ParseStarts == {FetchFailure("timeout"), Fetched(P_FOUR), Fetched(P_NOT_OBJECT)}

InitParse ==
    \E outcome \in ParseStarts : Constructed(TRUE, "key", NoDisplayManager, outcome)

\* _parse_arrivals(data)
ParseCall ==
    /\ call.op = "__init__"
    /\ \E data \in ParsePayloads :
       \E parsed \in {ParseArrivals(data)} :
            /\ train_data' = parsed.train_data
            /\ actual_train_count' = parsed.actual_train_count
            /\ call' = Called("_parse_arrivals", data, parsed.exc, FALSE, <<>>, <<>>)
            /\ UNCHANGED <<config, last_update, scroll_offset, _scroll_step,
                           last_rendered_data, last_scroll_offset, canvas>>

SpecParse == InitParse /\ [][ParseCall]_vars

---------------------------------------------------------------------------
(* The parser's properties, under SpecParse.                               *)

\* the list _parse_arrivals loops over
TrainsOf(data) == IF data.shape = "object" THEN data.trains ELSE <<>>

\* a record the loop converts: an object whose destination is a string (or
\* absent), whose line can be looked up and whose minutes are no infinite number
WellFormedRecord(t) ==
    /\ t.isdict
    /\ t.DestinationName.t \in {"str", "missing"}
    /\ t.Line.t # "list"
    /\ t.Min.t # "inf"

\* a well-formed payload: an object whose "Trains", when it has one, is a list of
\* such records
WellFormed(data) ==
    /\ data.shape \in {"object", "no_trains"}
    /\ \A i \in DOMAIN TrainsOf(data) : WellFormedRecord(TrainsOf(data)[i])

ParsedWellFormed == call.op = "_parse_arrivals" /\ WellFormed(call.arg)

\* the placeholder row, field by field
Placeholder(destination) ==
    [destination |-> destination, line |-> [t |-> "str", s |-> <<>>, n |-> 0],
     minutes |-> <<"-", "-">>, color |-> <<255, 255, 255>>]
NoDataPlaceholder == Placeholder(<<"N","O"," ","D","A","T","A">>)
ErrorPlaceholder == Placeholder(<<"E","R","R","O","R">>)
NoText == [t |-> "str", s |-> <<>>, n |-> 0]

\* C1: after _parse_arrivals on a well-formed payload of n records, train_data has
\* max(3, n) rows, the first n are the n records in API order, every further row
\* is the "NO DATA" placeholder (minutes "--", empty line, white), and
\* actual_train_count is n.
C1_PaddedQueue ==
    ParsedWellFormed =>
        /\ Len(train_data) = IF Len(TrainsOf(call.arg)) < 3 THEN 3
                             ELSE Len(TrainsOf(call.arg))
        /\ actual_train_count = Len(TrainsOf(call.arg))
        /\ \A i \in DOMAIN TrainsOf(call.arg) :
            /\ train_data[i].destination =
                   Strip(Get(TrainsOf(call.arg)[i].DestinationName, NoText).s)
            /\ train_data[i].line = Get(TrainsOf(call.arg)[i].Line, NoText)
        /\ \A i \in (Len(TrainsOf(call.arg)) + 1)..Len(train_data) :
            train_data[i] = NoDataPlaceholder

\* two records parsed and one row of padding
C1_Witness ==
    /\ ParsedWellFormed
    /\ Len(TrainsOf(call.arg)) = 2
    /\ Len(train_data) = 3
    /\ train_data[1].destination = D_LARGO
    /\ train_data[3].destination = NO_DATA

\* a payload in which only the minutes may be malformed
MinutesAtStake(data) ==
    /\ data.shape = "object"
    /\ \A i \in DOMAIN data.trains :
        /\ data.trains[i].isdict
        /\ data.trains[i].DestinationName.t \in {"str", "missing"}
        /\ data.trains[i].Line.t # "list"

\* the display the specification gives a raw minutes value
ClaimedMinutes(v) ==
    IF v = JStr(ARR) THEN ARR
    ELSE IF v = JStr(BRD) THEN BRD
    ELSE IF IntOf(v).exc = "none" THEN IntToStr(IntOf(v).n) \o MIN_SUFFIX
    ELSE <<"-", "-">>

\* C2: every arrival record gets a row whose minutes are "ARR" for the arriving
\* token, "BRD" for the boarding token, "<N> MIN" when the value parses as the
\* integer N and "--" for every other value.
C2_MinutesOfEveryRecord ==
    (call.op = "_parse_arrivals" /\ MinutesAtStake(call.arg)) =>
        \A i \in DOMAIN call.arg.trains :
            /\ i <= actual_train_count
            /\ train_data[i].minutes =
                   ClaimedMinutes(Get(call.arg.trains[i].Min, NoText))

\* C3: whenever an exception is raised while _parse_arrivals processes a payload,
\* train_data is exactly three "ERROR" rows (minutes "--", empty line, white) and
\* actual_train_count is 0.
C3_AtomicFailure ==
    (call.op = "_parse_arrivals" /\ (call.exc # "none" \/ ~WellFormed(call.arg))) =>
        /\ train_data = <<ErrorPlaceholder, ErrorPlaceholder, ErrorPlaceholder>>
        /\ actual_train_count = 0

\* an exception raised at the second record, the first one already converted
C3_Witness ==
    /\ call.op = "_parse_arrivals"
    /\ call.exc = "OverflowError"
    /\ Len(TrainsOf(call.arg)) = 2
    /\ WellFormedRecord(call.arg.trains[1])
    /\ train_data[1].destination = ERROR

---------------------------------------------------------------------------
(* The properties of update(), display() and the page calls, under Spec.   *)

\* an update() whose fetch fails: no API key, or the HTTP client fails
FetchFailed(c) ==
    c.op = "update" /\ enabled /\ (wmata_api_key = "" \/ c.arg.kind \in FailureKinds)

\* C4: when a fetch fails (network error, timeout, non-2xx status, undecodable
\* body, or no API key), update()/_fetch_arrivals returns without raising (False
\* from _fetch_arrivals) and leaves train_data, actual_train_count and last_update
\* exactly as they were before the call.
C4_FailedFetchKeepsQueue ==
    [][FetchFailed(call') =>
          /\ ~call'.raised
          /\ call'.ret = FALSE
          /\ UNCHANGED <<train_data, actual_train_count, last_update>>]_vars

\* a timeout met by a plugin that holds a fetched queue
C4_Witness ==
    /\ FetchFailed(call)
    /\ wmata_api_key # ""
    /\ call.arg.kind = "timeout"
    /\ actual_train_count > 0
    /\ last_update # <<>>

\* scroll_offset is in the scroll range of the current queue, and is 0 when the
\* queue does not scroll
ScrollInRange ==
    /\ scroll_offset >= 0
    /\ scroll_offset < MaxScroll(actual_train_count, display_manager.height) + line_height
    /\ (actual_train_count <= MaxVisibleTrains(display_manager.height)
            => scroll_offset = 0)

\* C5 as stated: in every state reachable by any interleaving of update() and
\* display(), scroll_offset lies in [0, maxScroll + rowHeight) for the current
\* queue and is 0 whenever actual_train_count is at most maxVisibleRows.
C5_ScrollInRangeAlways == display_manager.present => ScrollInRange

\* a display() that got as far as the scroll update: the plugin is enabled, it has
\* a display manager and the canvas size was read
ReachedScroll(c) ==
    c.op = "display" /\ enabled /\ display_manager.present /\ c.arg.fault.op # "width"

\* C5 (amended): right after every display() that reaches its scroll update,
\* scroll_offset lies in [0, maxScroll + rowHeight) for the current queue and is 0
\* whenever actual_train_count is at most maxVisibleRows.
C5_ScrollInRangeAfterDisplay == ReachedScroll(call) => ScrollInRange

\* a display() that brought the offset of a queue that stopped scrolling back to 0
C5_Witness ==
    /\ ReachedScroll(call)
    /\ _scroll_step # <<>>
    /\ actual_train_count <= MaxVisibleTrains(display_manager.height)
    /\ scroll_offset = 0

\* the redraw test of a display() step: nothing rendered yet means a frame is
\* drawn; the fingerprint and the offset of the last rendered frame, with no
\* force_clear, mean no sink call and no trains; force_clear means a frame
Redraw(first) ==
    /\ (first => call'.emitted # <<>>)
    /\ ((/\ ~call'.arg.force_clear
         /\ last_rendered_data = <<DataHash(train_data, display_manager.height)>>
         /\ last_scroll_offset = <<scroll_offset'>>)
            => call'.emitted = <<>> /\ call'.ret = <<>>)
    /\ (call'.arg.force_clear => call'.emitted # <<>>)

\* C6 as stated: the first display() after construction always emits draw
\* commands; a display() with the queue and scroll offset of the previous rendered
\* call and no force_clear emits none and returns no trains; a display() with
\* force_clear always draws.
C6_RedrawSuppression ==
    [][call'.op = "display" => Redraw(call.op = "__init__")]_vars

\* C6 (amended): on an enabled plugin with a display manager whose size can be
\* read, a display() made before any frame was rendered (the first one after
\* construction among them) emits draw commands; one with the queue and scroll
\* offset of the previous rendered call and no force_clear emits none and returns
\* no trains; one with force_clear always draws.
C6_RedrawSuppressionWhenShown ==
    [][ReachedScroll(call') => Redraw(last_rendered_data = <<>>)]_vars

\* a suppressed display() of a queue of real rows that was rendered before
C6_Witness ==
    /\ ReachedScroll(call)
    /\ ~call.arg.force_clear
    /\ call.emitted = <<>>
    /\ actual_train_count > 0
    /\ last_rendered_data = <<DataHash(train_data, display_manager.height)>>
    /\ last_scroll_offset = <<scroll_offset>>
    /\ canvas # <<>>

PageCall(c) == c.op \in {"next_page", "prev_page"}

\* C8 as stated: the plugin has a direction page state that next_page and
\* prev_page each switch to the other of EASTBOUND and WESTBOUND; a page state is
\* part of the plugin's state, so each of the two calls changes that state.
C8_PageToggles == [][PageCall(call') => plugin' # plugin]_vars

\* C8 (amended): the plugin has one page and no page state; next_page and
\* prev_page are no-ops that change no field of the plugin and nothing on the
\* canvas.
C8_PageCallsAreNoOps == [][PageCall(call') => UNCHANGED <<config, plugin, canvas>>]_vars

\* a next_page() on a plugin that is scrolling a drawn queue
C8_Witness ==
    /\ call.op = "next_page"
    /\ scroll_offset > 0
    /\ last_rendered_data # <<>>
    /\ canvas # <<>>

\* a display() whose try block raised
DisplayRaised == call.op = "display" /\ call.exc # "none"

\* the canvas showing the error text and nothing else
ErrorOnly == <<[op |-> "draw_text", text |-> ERROR, x |-> 5, y |-> 15,
                color |-> <<255, 0, 0>>]>>

\* no exception escapes update() or display(), and an update() whose parse failed
\* leaves the three "ERROR" rows
NothingEscapes ==
    /\ (call.op \in {"update", "display"} => ~call.raised)
    /\ ((call.op = "update" /\ call.exc # "none")
            => /\ Len(train_data) = 3
               /\ \A i \in 1..3 : train_data[i].destination = ERROR)

\* C10 as stated: no exception escapes update() or display(), whatever the fetch,
\* the payload or the sink does; when anything fails inside display() the canvas
\* is cleared, "ERROR" is drawn in place of the normal content and display()
\* returns an empty trains list.
C10_ErrorShown ==
    /\ NothingEscapes
    /\ (DisplayRaised => canvas = ErrorOnly /\ call.ret = <<>>)

\* the sink calls display() made end with those of its except block, up to the
\* first one that raised again
HandlerRan ==
    LET made == call.emitted
        n == Len(made)
    IN  IF ~call.arg.fault.persistent
        THEN n >= 3 /\ SubSeq(made, n - 2, n) = <<"clear", "draw_text", "update_display">>
        ELSE IF call.arg.fault.op = "clear" THEN n >= 1 /\ made[n] = "clear"
        ELSE n >= 2 /\ SubSeq(made, n - 1, n) = <<"clear", "draw_text">>

\* C10 (amended): no exception escapes update() or display(); when anything fails
\* inside display(), its handler calls clear(), draw_text("ERROR") and
\* update_display(), passes over an exception these raise, and display() returns
\* an empty trains list; the canvas is cleared and shows "ERROR" alone when the
\* three calls succeed.
C10_ErrorAttempted ==
    /\ NothingEscapes
    /\ (DisplayRaised =>
            /\ call.ret = <<>>
            /\ HandlerRan
            /\ (~call.arg.fault.persistent => canvas = ErrorOnly))

\* a frame that failed at update_display(), its rows already drawn, replaced by
\* the error text
C10_Witness ==
    /\ DisplayRaised
    /\ call.arg.fault.op = "update_display"
    /\ actual_train_count > 0
    /\ canvas = ErrorOnly

\* the first actual_train_count rows are the rows of the records of a body the
\* plugin fetched, in their order
RealRows ==
    \E data \in Payloads :
        /\ Len(data.trains) = actual_train_count
        /\ \A i \in 1..actual_train_count :
            /\ i <= Len(train_data)
            /\ TrainInfo(data.trains[i]).exc = "none"
            /\ train_data[i] = TrainInfo(data.trains[i]).row

\* the queue is padded: max(3, actual_train_count) rows, the real ones first, every
\* other one a "NO DATA" or an "ERROR" placeholder with no line and in white
QueuePadded ==
    /\ Len(train_data) = Max(3, actual_train_count)
    /\ RealRows
    /\ \A i \in (actual_train_count + 1)..Len(train_data) :
        train_data[i] \in {NoDataPlaceholder, ErrorPlaceholder}

\* C12 as stated: in every state reachable after construction by update() and
\* display() calls, with successful, failed or malformed fetches, train_data has
\* max(3, actual_train_count) rows, the first actual_train_count are real arrivals
\* and every other row is a "NO DATA" or "ERROR" placeholder with empty line code
\* and white colour.
C12_QueuePaddedAlways == QueuePadded

\* C12 (amended): the same in every state reached once a fetch returned a body
\* (last_update is set); until then, every fetch having failed, train_data is
\* empty and actual_train_count is 0.
C12_QueuePaddedOnceFetched ==
    IF last_update # <<>> THEN QueuePadded
    ELSE train_data = <<>> /\ actual_train_count = 0

\* a frame drawn from a queue of two arrivals and one row of padding
C12_Witness ==
    /\ call.op = "display"
    /\ call.exc = "none"
    /\ call.emitted # <<>>
    /\ canvas # <<>>
    /\ last_update # <<>>
    /\ actual_train_count = 2
    /\ Len(train_data) = 3
    /\ train_data[2].destination = Strip(D_VIENNA_PADDED)
    /\ train_data[3] = NoDataPlaceholder

\* the last call is a display() that went through its redraw test (the plugin
\* enabled, a display manager attached, the canvas size read) and emitted nothing
Suppressed ==
    /\ call.op = "display"
    /\ enabled
    /\ display_manager.present
    /\ call.arg.fault.op # "width"
    /\ call.emitted = <<>>

\* the canvas shows a frame display() drew from a queue: not nothing, and not the
\* error text
ShowsFrame == canvas # <<>> /\ canvas # ErrorOnly

\* the frame of the queue at a scroll offset, as a working sink shows it
ShownFrame(rows, offset) ==
    RunSink(Frame(rows, display_manager.width, display_manager.height, offset,
                  display_manager.font), "none", <<>>, <<>>).canvas

\* C13: redraw suppression never hides new content: when update() changed what a
\* drawn row shows (destination, minutes text or line colour) or which rows the
\* canvas shows, the next display() emits draw commands; so after a display() that
\* emitted none the frame on the canvas is that of the current queue.
C13_NewContentIsDrawn ==
    (Suppressed /\ ShowsFrame) => canvas = ShownFrame(train_data, scroll_offset)

---------------------------------------------------------------------------
(* _get_direction on its own: calls on the destination of a record.        *)

\* str.upper()
Upper(s) == [i \in DOMAIN s |-> UpperChar(s[i])]

Keywords == Range(east_destinations) \cup Range(west_destinations)

\* destinations that hold no keyword
NeutralDestinations ==
    {EMPTY, NO_DATA,
     <<"M","e","t","r","o"," ","C","e","n","t","e","r">>,
     <<"G","r","e","e","n","b","e","l","t">>,
     <<"H","u","n","t","i","n","g","t","o","n">>,
     <<"N","e","w"," ","C","a","r","r","o","l","l","t","o","n">>,
     <<"T","r","a","i","n">>,
     <<"N","o"," ","P","a","s","s","e","n","g","e","r">>,
     <<"L","a","r","g">>,
     <<"M","e","d","i","c","a","l"," ","C","t","r">>,
     <<"M","t"," ","V","e","r","n","o","n"," ","S","q">>}

\* destinations that hold a keyword of each list
MixedDestinations ==
    {<<"L","a","r","g","o"," ","/"," ","V","i","e","n","n","a">>,
     <<"V","i","e","n","n","a"," ","v","i","a"," ","N","a","v","y"," ","Y","a","r","d">>}

\* the destinations _get_direction is given: every keyword as it is, capitalised
\* and in upper case, and the destinations above
DirectionDestinations ==
    Keywords \cup {Title(k) : k \in Keywords} \cup {Upper(k) : k \in Keywords}
    \cup NeutralDestinations \cup MixedDestinations

\* the "Group" of a record
GROUP_1 == JStr(<<"1">>)
GROUP_2 == JStr(<<"2">>)
Groups == {GROUP_1, GROUP_2, JMissing}

\* a plugin whose first fetch timed out
TimedOut == FetchFailure("timeout")

InitDirection == Constructed(TRUE, "key", NoDisplayManager, TimedOut)

\* the records whose destination is classified
DirectionRecords ==
    {Train(JStr(destination), JStr(LINE_RD), JStr(<<"5">>), group) :
        destination \in DirectionDestinations, group \in Groups}

\* _get_direction(destination) for the destination of a record
DirectionCall ==
    /\ UNCHANGED <<config, plugin, canvas>>
    /\ \E train \in DirectionRecords :
        call' = Called("_get_direction", train, "none", FALSE,
                       GetDirection(train.DestinationName.s), <<>>)

SpecDirection == InitDirection /\ [][DirectionCall]_vars

\* the lower-cased destination of the record a call classified
Classified == Lower(call.arg.DestinationName.s)

\* a keyword of the list is a substring of the destination
Matches(keywords, destination) ==
    \E k \in Range(keywords) :
        \E i \in 1..Len(destination) :
            /\ i + Len(k) - 1 <= Len(destination)
            /\ \A j \in 1..Len(k) : destination[i + j - 1] = k[j]

\* C9 as stated: the east list is tried first, then the west list; when neither
\* matches, group "1" gives east and group "2" gives west; without a group the
\* result is east.
C9_DirectionWithGroup ==
    call.op = "_get_direction" =>
        call.ret = IF Matches(east_destinations, Classified) THEN "east"
                   ELSE IF Matches(west_destinations, Classified) THEN "west"
                   ELSE IF call.arg.Group = GROUP_1 THEN "east"
                   ELSE IF call.arg.Group = GROUP_2 THEN "west"
                   ELSE "east"

\* C9 (amended): the east list is tried first, then the west list, and the first
\* list holding a keyword that is a substring of the lower-cased destination
\* decides; when neither matches the result is east, whatever the record's group
\* tag is.
C9_DirectionIgnoresGroup ==
    call.op = "_get_direction" =>
        call.ret = IF Matches(east_destinations, Classified) THEN "east"
                   ELSE IF Matches(west_destinations, Classified) THEN "west"
                   ELSE "east"

\* a destination of neither list with group "2", classified east
C9_Witness ==
    /\ call.op = "_get_direction"
    /\ ~Matches(east_destinations, Classified)
    /\ ~Matches(west_destinations, Classified)
    /\ call.arg.DestinationName.s # EMPTY
    /\ call.arg.Group = GROUP_2
    /\ call.ret = "east"

---------------------------------------------------------------------------
(* The rows of display(): a plugin that fetched one arrival, on sinks of   *)
(* several widths and fonts.                                               *)

RowDestinations ==
    {JStr(D_LARGO), JStr(D_VIENNA_PADDED), JStr(D_SHADY), JStr(D_GLENMONT),
     JStr(D_BRANCH), JStr(<<"X">>), JStr(<<"i","l">>), JMissing}

\* the line codes of the records: a line of LINE_CODES and none
RowLines == {JStr(LINE_RD), JMissing}

\* the "Min" of the records: shown as ARR, BRD, 5 MIN, 12 MIN and --
RowMinutes == {JStr(ARR), JStr(BRD), JStr(<<"5">>), JInt(12), JNull}

\* the sinks: canvases 32 pixels high, of these widths, with either font
RowSinks ==
    {DisplayManager(width, 32, font) : width \in {32, 48, 64, 128},
                                       font \in {"mono", "prop"}}

RowPayloads ==
    {Payload("object", <<Train(destination, line, minutes, JMissing)>>) :
        destination \in RowDestinations, line \in RowLines, minutes \in RowMinutes}

InitRow ==
    \E dm \in RowSinks, data \in RowPayloads : Constructed(TRUE, "key", dm, Fetched(data))

\* every step is a display()
SpecRow == InitRow /\ [][Display]_vars

\* a display() that drew the three rows of the queue under the header
RowsDrawn == call.op = "display" /\ call.exc = "none" /\ Len(canvas) = 7

\* C7: for every destination, minutes text and canvas width, the destination text
\* drawn for a row is at most minutes_x - spacing wide (it is drawn from x = 0 and
\* the minutes from minutes_x), ends with ".." whenever the full destination does
\* not fit in that width, and is the destination unchanged when it fits.
C7_DestinationFits ==
    RowsDrawn =>
        \A i \in 1..3 :
            LET drawn == canvas[2 * i].text
                room == canvas[2 * i + 1].x - 2
                full == train_data[i].destination
                font == display_manager.font
            IN  /\ canvas[2 * i + 1].text = train_data[i].minutes
                /\ TextWidth(drawn, font) <= room
                /\ (TextWidth(full, font) > room
                        => /\ Len(drawn) >= 2
                           /\ SubSeq(drawn, Len(drawn) - 1, Len(drawn)) = <<".", ".">>)
                /\ (TextWidth(full, font) <= room => drawn = full)

---------------------------------------------------------------------------
(* Scrolling: display() ticks of a working sink on a queue that does not   *)
(* change and holds more real rows than the canvas shows.                  *)

\* the bodies of the first fetch: 4 to 7 arrivals
ScrollPayloads ==
    {Payload("object",
             SubSeq(<<T_LARGO, T_VIENNA, T_SHADY, T_GLENMONT, T_LARGO, T_VIENNA_SILVER,
                      T_GLENMONT>>, 1, count)) : count \in 4..7}

InitScroll ==
    \E dm \in DisplayManagers \ {NoDisplayManager}, data \in ScrollPayloads :
        Constructed(TRUE, "key", dm, Fetched(data))

\* a display() during which the sink does not fail
WorkingDisplay == Display /\ call'.arg.fault = NoFault

\* the host keeps calling display()
SpecScroll == InitScroll /\ [][WorkingDisplay]_vars /\ WF_vars(WorkingDisplay)

\* cycle_period of the current queue
CyclePeriod == MaxScroll(actual_train_count, display_manager.height) + line_height

\* one tick of the scroll: the step grows by the increment and the offset moves
\* on by it, falling back by cycle_period at the end of the range
ScrollAdvances ==
    /\ _scroll_step' = <<StepValue(_scroll_step) + scroll_increment>>
    /\ scroll_offset' = (scroll_offset + scroll_increment) % CyclePeriod
    /\ scroll_offset' # scroll_offset
    /\ call'.emitted # <<>>

\* the frame on the canvas holds row i (from 1) of the queue, both of its texts at
\* the row's place for the current offset, the whole row inside the canvas
RowInside(i) ==
    LET y_pos == (header_height + 1) + ((i - 1) * line_height) - scroll_offset
    IN  /\ call.op = "display"
        /\ call.exc = "none"
        /\ y_pos >= 0
        /\ y_pos + line_height <= display_manager.height
        /\ \E k \in DOMAIN canvas :
            /\ canvas[k].x = 0
            /\ canvas[k].y = y_pos
            /\ canvas[k].color = train_data[i].color
        /\ \E k \in DOMAIN canvas :
            /\ canvas[k].x > 0
            /\ canvas[k].y = y_pos
            /\ canvas[k].text = train_data[i].minutes

\* C11: with an unchanged queue of more real rows than the canvas shows, every
\* display() tick advances the scroll step by the fixed increment and moves the
\* offset cyclically (it never stalls and never turns back other than by the wrap
\* at the end of the range), every real row is eventually drawn fully inside the
\* canvas, and the offset eventually wraps back toward 0 (it falls behind the
\* step it is taken from).
C11_CyclicScroll ==
    /\ [][call'.op = "display" => ScrollAdvances]_vars
    /\ \A i \in 1..7 : <>(i <= actual_train_count => RowInside(i))
    /\ <>(scroll_offset < StepValue(_scroll_step))

\* a frame drawn after the offset wrapped, the last real row fully inside it
C11_Witness ==
    /\ actual_train_count > MaxVisibleTrains(display_manager.height)
    /\ StepValue(_scroll_step) >= CyclePeriod
    /\ scroll_offset > 0
    /\ RowInside(actual_train_count)

====
